---- MODULE Spec2Model ----
(***************************************************************************)
(* Model of the Strava metrics dashboard core: the streams cache and the   *)
(* failed-id set (stream_cache.py), StravaAPIClient.get_activity_timeseries,*)
(* the time/distance resampling and the personal-best engine               *)
(* (strava_api.py).                                                        *)
(*                                                                         *)
(* Numbers.  The upstream distance stream is in metres; the code converts  *)
(* with d / 1609.34.  A distance in miles is kept here as the exact        *)
(* numerator n of n / UnitsPerMile (UnitsPerMile = 160934), so that        *)
(* d / 1609.34 = (d * 100) / 160934 has numerator d * 100.  round(x, 2)    *)
(* and int(x * 100) are computed on that exact value and give an integer   *)
(* number of hundredths of a mile.  For whole metres below 80 km the exact *)
(* value is never on a rounding boundary (160934 = 2 * 67 * 1201), so the  *)
(* floating-point result is the exact one.                                 *)
(***************************************************************************)
EXTENDS Integers, Sequences, FiniteSets, TLC

\* ---- bounds of the model ----
NumIds == 2
MaxLen == 3
MaxTime == 2
MaxActs == 2
MaxTotal == 4
StoreLen == 2
MaxUpstream == 6
MaxPerPage == 3
MaxStat == 2
MaxRows == 2
MaxStart == 3
SlotsPerDay == 2
MaxSeconds == 3725

Ids == 1..NumIds
\* elapsed seconds: the first tick, and one that leaves a gap after it
TimeVals == {0, MaxTime}
\* metres: 20 m rounds to 0.01 mi, 60 m to 0.04 mi, and the 40 m between
\* them to 0.02 mi
MeterVals == {0, 20, 60}

\* ---- program constants ----
UnitsPerMile == 160934
\* get_activities(per_page=200), the most the API serves in a page
PerPageDefault == 200

VARIABLES
    streams_cache,      \* StravaAPIClient.streams_cache : id -> raw stream
    failed_activities,  \* StravaAPIClient.failed_activities : set of ids
    sort_ties,          \* how this build's DataFrame.sort orders equal keys
    last,               \* the last call: its arguments, result, upstream requests
    session_state,      \* st.session_state: the flags refresh_all, refresh_existing
    paging              \* get_activities in progress: its locals and its upstream

vars == <<streams_cache, failed_activities, sort_ties, last, session_state, paging>>

\* ---- values ----
\* a raised exception of get_activity_streams, and dict.get's None
Err == [kind |-> "error", time |-> <<>>, distance |-> <<>>]
None == [kind |-> "none", time |-> <<>>, distance |-> <<>>]

SeqsUpTo(S, n) == UNION {[1..k -> S] : k \in 0..n}

Stream(t, d) == [kind |-> "stream", time |-> t, distance |-> d]

\* every payload the Streams API can answer with, lengths equal or not
Streams == {Stream(t, d) : t \in SeqsUpTo(TimeVals, MaxLen), d \in SeqsUpTo(MeterVals, MaxLen)}

Responses == Streams \cup {Err}

\* lists of activities handed to the engines: each activity is its id, and a
\* listing names an activity once
ActLists ==
    {a \in SeqsUpTo(Ids, MaxActs) :
        /\ Len(a) >= 1
        /\ \A i, j \in 1..Len(a) : i # j => a[i] # a[j]}

\* ---- helpers ----
Min(S) == CHOOSE x \in S : \A y \in S : x <= y
Max(S) == CHOOSE x \in S : \A y \in S : x >= y
Range(s) == {s[k] : k \in DOMAIN s}
Reverse(s) == [k \in 1..Len(s) |-> s[Len(s) + 1 - k]]

\* ---- numeric conversions ----
\* d / 1609.34
MetersToMiles(d) == d * 100

\* round(x, 2), in hundredths of a mile; x = n / UnitsPerMile; ties to even
Round2(n) ==
    LET q == (200 * n + UnitsPerMile) \div (2 * UnitsPerMile)
        r == (200 * n + UnitsPerMile) % (2 * UnitsPerMile)
    IN  IF r = 0 /\ q % 2 = 1 THEN q - 1 ELSE q

\* int(x * 100): truncation toward zero
IntTimes100(n) ==
    IF n >= 0 THEN (100 * n) \div UnitsPerMile
    ELSE -((100 * (-n)) \div UnitsPerMile)

\* ---- stream_cache.py ----
\* get_cached_stream that never finds an entry
get_cached_stream_miss(activity_id, cache) == None

get_cached_stream(activity_id, cache) ==
    IF activity_id \in DOMAIN cache THEN cache[activity_id] ELSE None

\* cache_stream that keeps the newest entry only
cache_stream_only_newest(activity_id, stream_data, cache) ==
    [k \in {activity_id} |-> stream_data]


cache_stream(activity_id, stream_data, cache) ==
    [k \in DOMAIN cache \cup {activity_id} |->
        IF k = activity_id THEN stream_data ELSE cache[k]]

\* mark_failed that records nothing
mark_failed_forgets(activity_id, failed) == failed

mark_failed(activity_id, failed) == failed \cup {activity_id}

\* clear_failed that leaves the set as it is
clear_failed_keeps(failed) == failed


clear_failed(failed) == {}

\* ---- StravaAPIClient ----
\* rows (elapsed_seconds, distance_mi), zip of the two arrays
parse_stream_to_dataframe(streams) ==
    IF streams.time = <<>> \/ streams.distance = <<>> THEN <<>>
    ELSE [k \in 1..Min({Len(streams.time), Len(streams.distance)}) |->
            [elapsed_seconds |-> streams.time[k],
             distance_mi |-> MetersToMiles(streams.distance[k])]]

\* requests.get + raise_for_status + json: what the API answers for the id
\* during this call; a request it has no answer to raises
get_activity_streams(c, activity_id) ==
    IF activity_id \in DOMAIN c.answers THEN c.answers[activity_id] ELSE Err

\* get_activity_timeseries that looks in the cache before the failed set
get_activity_timeseries_cache_first(c, activity_id, force_refresh) ==
    IF ~force_refresh /\ get_cached_stream(activity_id, c.cache) # None
    THEN [c EXCEPT !.ret = parse_stream_to_dataframe(get_cached_stream(activity_id, c.cache))]
    ELSE IF activity_id \in c.failed /\ ~force_refresh
    THEN [c EXCEPT !.ret = <<>>]
    ELSE LET streams == get_activity_streams(c, activity_id)
             c1 == [c EXCEPT !.fetched = Append(@, activity_id)]
         IN  IF streams.kind = "error"
             THEN [c1 EXCEPT !.failed = mark_failed(activity_id, @), !.ret = <<>>]
             ELSE IF \/ streams.time = <<>>
                     \/ streams.distance = <<>>
                     \/ Len(streams.time) # Len(streams.distance)
             THEN [c1 EXCEPT !.failed = mark_failed(activity_id, @), !.ret = <<>>]
             ELSE [c1 EXCEPT !.cache = cache_stream(activity_id, streams, @),
                             !.ret = parse_stream_to_dataframe(streams)]

\* get_activity_timeseries that caches a fetched stream and returns no rows
get_activity_timeseries_returns_nothing(c, activity_id, force_refresh) ==
    IF activity_id \in c.failed /\ ~force_refresh
    THEN [c EXCEPT !.ret = <<>>]
    ELSE IF ~force_refresh /\ get_cached_stream(activity_id, c.cache) # None
    THEN [c EXCEPT !.ret = parse_stream_to_dataframe(get_cached_stream(activity_id, c.cache))]
    ELSE LET streams == get_activity_streams(c, activity_id)
             c1 == [c EXCEPT !.fetched = Append(@, activity_id)]
         IN  IF streams.kind = "error"
             THEN [c1 EXCEPT !.failed = mark_failed(activity_id, @), !.ret = <<>>]
             ELSE IF \/ streams.time = <<>>
                     \/ streams.distance = <<>>
                     \/ Len(streams.time) # Len(streams.distance)
             THEN [c1 EXCEPT !.failed = mark_failed(activity_id, @), !.ret = <<>>]
             ELSE [c1 EXCEPT !.cache = cache_stream(activity_id, streams, @),
                             !.ret = <<>>]

\* get_activity_timeseries that gives no rows for an id missing from the cache
get_activity_timeseries_miss_is_empty(c, activity_id, force_refresh) ==
    IF activity_id \in c.failed /\ ~force_refresh
    THEN [c EXCEPT !.ret = <<>>]
    ELSE IF ~force_refresh
    THEN IF get_cached_stream(activity_id, c.cache) # None
         THEN [c EXCEPT !.ret = parse_stream_to_dataframe(get_cached_stream(activity_id, c.cache))]
         ELSE [c EXCEPT !.ret = <<>>]
    ELSE LET streams == get_activity_streams(c, activity_id)
             c1 == [c EXCEPT !.fetched = Append(@, activity_id)]
         IN  IF streams.kind = "error"
             THEN [c1 EXCEPT !.failed = mark_failed(activity_id, @), !.ret = <<>>]
             ELSE IF \/ streams.time = <<>>
                     \/ streams.distance = <<>>
                     \/ Len(streams.time) # Len(streams.distance)
             THEN [c1 EXCEPT !.failed = mark_failed(activity_id, @), !.ret = <<>>]
             ELSE [c1 EXCEPT !.cache = cache_stream(activity_id, streams, @),
                             !.ret = parse_stream_to_dataframe(streams)]

\* get_activity_timeseries that drops the cached stream of an id whose fetch
\* fails
get_activity_timeseries_evicts_on_failure(c, activity_id, force_refresh) ==
    IF activity_id \in c.failed /\ ~force_refresh
    THEN [c EXCEPT !.ret = <<>>]
    ELSE IF ~force_refresh /\ get_cached_stream(activity_id, c.cache) # None
    THEN [c EXCEPT !.ret = parse_stream_to_dataframe(get_cached_stream(activity_id, c.cache))]
    ELSE LET streams == get_activity_streams(c, activity_id)
             c1 == [c EXCEPT !.fetched = Append(@, activity_id)]
             evicted == [k \in DOMAIN c.cache \ {activity_id} |-> c.cache[k]]
         IN  IF streams.kind = "error"
             THEN [c1 EXCEPT !.failed = mark_failed(activity_id, @), !.cache = evicted,
                             !.ret = <<>>]
             ELSE IF \/ streams.time = <<>>
                     \/ streams.distance = <<>>
                     \/ Len(streams.time) # Len(streams.distance)
             THEN [c1 EXCEPT !.failed = mark_failed(activity_id, @), !.cache = evicted,
                             !.ret = <<>>]
             ELSE [c1 EXCEPT !.cache = cache_stream(activity_id, streams, @),
                             !.ret = parse_stream_to_dataframe(streams)]

\* get_activity_timeseries that caches the answer before it looks at it
get_activity_timeseries_caches_unchecked(c, activity_id, force_refresh) ==
    IF activity_id \in c.failed /\ ~force_refresh
    THEN [c EXCEPT !.ret = <<>>]
    ELSE IF ~force_refresh /\ get_cached_stream(activity_id, c.cache) # None
    THEN [c EXCEPT !.ret = parse_stream_to_dataframe(get_cached_stream(activity_id, c.cache))]
    ELSE LET streams == get_activity_streams(c, activity_id)
             c1 == [c EXCEPT !.fetched = Append(@, activity_id)]
         IN  IF streams.kind = "error"
             THEN [c1 EXCEPT !.failed = mark_failed(activity_id, @), !.ret = <<>>]
             ELSE IF \/ streams.time = <<>>
                     \/ streams.distance = <<>>
                     \/ Len(streams.time) # Len(streams.distance)
             THEN [c1 EXCEPT !.cache = cache_stream(activity_id, streams, @),
                             !.failed = mark_failed(activity_id, @), !.ret = <<>>]
             ELSE [c1 EXCEPT !.cache = cache_stream(activity_id, streams, @),
                             !.ret = parse_stream_to_dataframe(streams)]


\* One call of get_activity_timeseries on the client state c = [cache, failed,
\* answers, fetched, ret]: answers is what get_activity_streams gives for an
\* id during the call (Err: it raises), fetched logs the requests made.
get_activity_timeseries(c, activity_id, force_refresh) ==
    IF activity_id \in c.failed /\ ~force_refresh
    THEN [c EXCEPT !.ret = <<>>]
    ELSE IF ~force_refresh /\ get_cached_stream(activity_id, c.cache) # None
    THEN [c EXCEPT !.ret = parse_stream_to_dataframe(get_cached_stream(activity_id, c.cache))]
    ELSE LET streams == get_activity_streams(c, activity_id)
             c1 == [c EXCEPT !.fetched = Append(@, activity_id)]
         IN  IF streams.kind = "error"
             THEN [c1 EXCEPT !.failed = mark_failed(activity_id, @), !.ret = <<>>]
             ELSE IF \/ streams.time = <<>>
                     \/ streams.distance = <<>>
                     \/ Len(streams.time) # Len(streams.distance)
             THEN [c1 EXCEPT !.failed = mark_failed(activity_id, @), !.ret = <<>>]
             ELSE [c1 EXCEPT !.cache = cache_stream(activity_id, streams, @),
                             !.ret = parse_stream_to_dataframe(streams)]

\* the client state at the start of a call
Client(answers) ==
    [cache |-> streams_cache, failed |-> failed_activities, answers |-> answers,
     fetched |-> <<>>, ret |-> <<>>]

\* DataFrame.sort("elapsed_seconds"): ascending, equal keys in the order this
\* build gives them (maintain_order is not requested)
StableSortByTime(rows) ==
    LET n == Len(rows)
        Rank(i) == Cardinality({j \in 1..n : rows[j].elapsed_seconds < rows[i].elapsed_seconds})
                   + Cardinality({j \in 1..i : rows[j].elapsed_seconds = rows[i].elapsed_seconds})
    IN  [p \in 1..n |-> rows[CHOOSE i \in 1..n : Rank(i) = p]]

sort_elapsed_seconds(rows) ==
    IF sort_ties = "keep" THEN StableSortByTime(rows)
    ELSE StableSortByTime(Reverse(rows))

\* Series.to_list() of one column
Column(rows, name) == [k \in 1..Len(rows) |-> rows[k][name]]

\* ---- compute_personal_best_times ----
\* update_pb that keeps the latest window instead of the fastest
update_pb_last_wins(all_pb_data, distance_covered, time_taken) ==
    IF distance_covered <= 1 THEN all_pb_data
    ELSE [d \in DOMAIN all_pb_data \cup {distance_covered} |->
             IF d = distance_covered THEN time_taken ELSE all_pb_data[d]]

\* update_pb that skips only windows of no or negative distance
update_pb_zero_floor(all_pb_data, distance_covered, time_taken) ==
    IF distance_covered <= 0 THEN all_pb_data
    ELSE IF \/ distance_covered \notin DOMAIN all_pb_data
            \/ time_taken < all_pb_data[distance_covered]
         THEN [d \in DOMAIN all_pb_data \cup {distance_covered} |->
                  IF d = distance_covered THEN time_taken ELSE all_pb_data[d]]
         ELSE all_pb_data

\* update_pb that keeps the first time found for a distance
update_pb_first_wins(all_pb_data, distance_covered, time_taken) ==
    IF distance_covered <= 1 THEN all_pb_data
    ELSE IF distance_covered \notin DOMAIN all_pb_data
         THEN [d \in DOMAIN all_pb_data \cup {distance_covered} |->
                  IF d = distance_covered THEN time_taken ELSE all_pb_data[d]]
         ELSE all_pb_data


\* the body of the two loops: skip a window of at most 0.01 mi, else keep the
\* faster time for the rounded distance (in hundredths of a mile)
update_pb(all_pb_data, distance_covered, time_taken) ==
    IF distance_covered <= 1 THEN all_pb_data
    ELSE IF \/ distance_covered \notin DOMAIN all_pb_data
            \/ time_taken < all_pb_data[distance_covered]
         THEN [d \in DOMAIN all_pb_data \cup {distance_covered} |->
                  IF d = distance_covered THEN time_taken ELSE all_pb_data[d]]
         ELSE all_pb_data

\* for i in range(len(distances)): for j in range(i + 1, len(distances)),
\* continued from the pair (i, j) (1-based)
RECURSIVE scan_windows(_, _, _, _, _)
\* scan_windows that measures every window from the first sample only
RECURSIVE scan_windows_from_start(_, _, _, _, _)
scan_windows_from_start(all_pb_data, distances, times, i, j) ==
    IF i > 1 \/ j > Len(distances) THEN all_pb_data
    ELSE scan_windows_from_start(
            update_pb(all_pb_data, Round2(distances[j] - distances[i]), times[j] - times[i]),
            distances, times, i, j + 1)

scan_windows(all_pb_data, distances, times, i, j) ==
    IF i > Len(distances) THEN all_pb_data
    ELSE IF j > Len(distances)
    THEN scan_windows(all_pb_data, distances, times, i + 1, i + 2)
    ELSE scan_windows(
            update_pb(all_pb_data, Round2(distances[j] - distances[i]), times[j] - times[i]),
            distances, times, i, j + 1)

\* for activity in activities, continued from the k-th activity
RECURSIVE pb_loop(_, _, _, _)
pb_loop(c, all_pb_data, activities, k) ==
    IF k > Len(activities) THEN [c |-> c, all_pb_data |-> all_pb_data]
    ELSE LET c1 == get_activity_timeseries(c, activities[k], FALSE)
             ts == c1.ret
             ts_sorted == sort_elapsed_seconds(ts)
             distances == Column(ts_sorted, "distance_mi")
             times == Column(ts_sorted, "elapsed_seconds")
         IN  IF Len(ts) = 0 THEN pb_loop(c1, all_pb_data, activities, k + 1)
             ELSE IF Len(distances) < 2 THEN pb_loop(c1, all_pb_data, activities, k + 1)
             ELSE pb_loop(c1, scan_windows(all_pb_data, distances, times, 1, 2),
                          activities, k + 1)

\* pb_records in descending order of distance
pb_records_descending(all_pb_data) ==
    LET keys == DOMAIN all_pb_data
        KeyAt(p) == CHOOSE d \in keys : Cardinality({e \in keys : e > d}) = p - 1
    IN  [p \in 1..Cardinality(keys) |->
            [distance_mi |-> KeyAt(p), pb_seconds |-> all_pb_data[KeyAt(p)]]]


\* sorted(all_pb_data.items()) as rows (distance_mi in hundredths, pb_seconds)
pb_records(all_pb_data) ==
    LET keys == DOMAIN all_pb_data
        KeyAt(p) == CHOOSE d \in keys : Cardinality({e \in keys : e < d}) = p - 1
    IN  [p \in 1..Cardinality(keys) |->
            [distance_mi |-> KeyAt(p), pb_seconds |-> all_pb_data[KeyAt(p)]]]

compute_personal_best_times(c, activities) ==
    LET r == pb_loop(c, <<>>, activities, 1)
    IN  [c |-> r.c, ret |-> pb_records(r.all_pb_data)]

\* ---- get_time_and_distance_dataframes ----
\* polars null
Null == -1

\* group_by_second_last that takes the first sample of each second
group_by_second_first(ts_sorted) ==
    LET seconds == {ts_sorted[k].elapsed_seconds : k \in 1..Len(ts_sorted)}
        SecondAt(p) == CHOOSE s \in seconds : Cardinality({e \in seconds : e < s}) = p - 1
        FirstOf(s) == Min({k \in 1..Len(ts_sorted) : ts_sorted[k].elapsed_seconds = s})
    IN  [p \in 1..Cardinality(seconds) |->
            [second |-> SecondAt(p), distance_mi |-> ts_sorted[FirstOf(SecondAt(p))].distance_mi]]


\* group_by("second").agg(distance_mi.last()).sort("second")
group_by_second_last(ts_sorted) ==
    LET seconds == {ts_sorted[k].elapsed_seconds : k \in 1..Len(ts_sorted)}
        SecondAt(p) == CHOOSE s \in seconds : Cardinality({e \in seconds : e < s}) = p - 1
        LastOf(s) == Max({k \in 1..Len(ts_sorted) : ts_sorted[k].elapsed_seconds = s})
    IN  [p \in 1..Cardinality(seconds) |->
            [second |-> SecondAt(p), distance_mi |-> ts_sorted[LastOf(SecondAt(p))].distance_mi]]

\* with_columns(distance_mi.forward_fill()): a null takes the last value
\* before it; rows are neither added nor removed
forward_fill(rows) ==
    [k \in 1..Len(rows) |->
        LET known == {i \in 1..k : rows[i].distance_mi # Null}
        IN  IF known = {} THEN rows[k]
            ELSE [rows[k] EXCEPT !.distance_mi = rows[Max(known)].distance_mi]]

time_resampled(ts_sorted, activity_id) ==
    LET filled == forward_fill(group_by_second_last(ts_sorted))
    IN  [k \in 1..Len(filled) |->
            [activity_id |-> activity_id, second |-> filled[k].second,
             distance_mi |-> filled[k].distance_mi]]

\* mile_intervals that leaves out the last key: range(0, int(max * 100))
mile_intervals_short(ts_sorted) ==
    LET max_distance_mi == Max({ts_sorted[k].distance_mi : k \in 1..Len(ts_sorted)})
    IN  [i \in 1..IntTimes100(max_distance_mi) |-> i - 1]

\* [i * 0.01 for i in range(0, int(max_distance_mi * 100) + 1)], in hundredths
mile_intervals(ts_sorted) ==
    LET max_distance_mi == Max({ts_sorted[k].distance_mi : k \in 1..Len(ts_sorted)})
    IN  [i \in 1..(IntTimes100(max_distance_mi) + 1) |-> i - 1]

\* join_asof requires its right frame sorted by the key
SortedByDistance(rows) ==
    \A k \in 1..(Len(rows) - 1) : rows[k].distance_mi <= rows[k + 1].distance_mi

\* join_asof(on="distance_mi", strategy="forward"): the first row at or after
\* the key, null when there is none
join_asof_forward(key, ts_sorted) ==
    LET hits == {k \in 1..Len(ts_sorted) : 100 * ts_sorted[k].distance_mi >= key * UnitsPerMile}
    IN  IF hits = {} THEN Null ELSE ts_sorted[Min(hits)].elapsed_seconds

distance_resampled(ts_sorted, activity_id) ==
    LET keys == mile_intervals(ts_sorted)
    IN  [k \in 1..Len(keys) |->
            [activity_id |-> activity_id, distance_mi |-> keys[k],
             elapsed_seconds |-> join_asof_forward(keys[k], ts_sorted)]]

\* for activity in activities, continued from the k-th activity; an unsorted
\* right frame makes join_asof raise, which ends the call
RECURSIVE td_loop(_, _, _, _, _)
td_loop(c, all_time_data, all_distance_data, activities, k) ==
    IF k > Len(activities)
    THEN [c |-> c, time_df |-> all_time_data, distance_df |-> all_distance_data,
          raised |-> FALSE]
    ELSE LET c1 == get_activity_timeseries(c, activities[k], FALSE)
             ts == c1.ret
             ts_sorted == sort_elapsed_seconds(ts)
         IN  IF Len(ts) = 0
             THEN td_loop(c1, all_time_data, all_distance_data, activities, k + 1)
             ELSE IF ~SortedByDistance(ts_sorted)
             THEN [c |-> c1, time_df |-> <<>>, distance_df |-> <<>>, raised |-> TRUE]
             ELSE td_loop(c1,
                          all_time_data \o time_resampled(ts_sorted, activities[k]),
                          all_distance_data \o distance_resampled(ts_sorted, activities[k]),
                          activities, k + 1)

get_time_and_distance_dataframes(c, activities) ==
    td_loop(c, <<>>, <<>>, activities, 1)

\* ---- get_stats_summary ----
\* The activities frame as this method reads it: one row per activity with
\* the columns Distance (mi), Duration (min), Elevation (ft) and Pace (min/mi),
\* each an exact quantity in units of its own.
StatRows ==
    [distance : 0..MaxStat, duration : 0..MaxStat, elevation : {0, MaxStat},
     pace : {0, MaxStat}]

StatFrames(n) == SeqsUpTo(StatRows, n)

\* next to the store the summary is taken of no activity and of one
StoreStatFrames ==
    {<<>>, <<[distance |-> MaxStat, duration |-> 1, elevation |-> 0, pace |-> MaxStat]>>}

\* Series.sum()
RECURSIVE ColumnSum(_, _)
ColumnSum(rows, name) ==
    IF rows = <<>> THEN 0
    ELSE ColumnSum(SubSeq(rows, 1, Len(rows) - 1), name) + rows[Len(rows)][name]

\* Series.mean() of a frame with rows, as the fraction sum / height
ColumnMean(rows, name) == <<ColumnSum(rows, name), Len(rows)>>

\* get_stats_summary that totals the duration column for the elevation
get_stats_summary_mixes_columns(activities_df) ==
    IF Len(activities_df) = 0
    THEN [total_distance |-> 0, total_duration |-> 0, total_elevation |-> 0,
          avg_pace |-> 0, num_activities |-> 0]
    ELSE [total_distance |-> ColumnSum(activities_df, "distance"),
          total_duration |-> ColumnSum(activities_df, "duration"),
          total_elevation |-> ColumnSum(activities_df, "duration"),
          avg_pace |-> ColumnMean(activities_df, "pace"),
          num_activities |-> Len(activities_df),
          avg_distance |-> ColumnMean(activities_df, "distance")]

get_stats_summary(activities_df) ==
    IF Len(activities_df) = 0
    THEN [total_distance |-> 0, total_duration |-> 0, total_elevation |-> 0,
          avg_pace |-> 0, num_activities |-> 0]
    ELSE [total_distance |-> ColumnSum(activities_df, "distance"),
          total_duration |-> ColumnSum(activities_df, "duration"),
          total_elevation |-> ColumnSum(activities_df, "elevation"),
          avg_pace |-> ColumnMean(activities_df, "pace"),
          num_activities |-> Len(activities_df),
          avg_distance |-> ColumnMean(activities_df, "distance")]


\* ---- format_time (strava_api.py and app.py) ----
DigitChars == <<"0", "1", "2", "3", "4", "5", "6", "7", "8", "9">>

\* str(n) of a non-negative integer: its decimal digits, no padding
RECURSIVE Digits(_)
Digits(n) ==
    IF n < 10 THEN <<DigitChars[n + 1]>>
    ELSE Append(Digits(n \div 10), DigitChars[(n % 10) + 1])

\* f"{n:02d}" of a non-negative integer: at least two digits
Pad2(n) == IF n < 10 THEN <<"0">> \o Digits(n) ELSE Digits(n)

\* format_time that takes all the minutes, the hours' ones included
format_time_whole_minutes(seconds) ==
    LET hours == seconds \div 3600
        minutes == seconds \div 60
        secs == seconds % 60
    IN  Digits(hours) \o <<":">> \o Pad2(minutes) \o <<":">> \o Pad2(secs)

format_time(seconds) ==
    LET hours == seconds \div 3600
        minutes == (seconds % 3600) \div 60
        secs == seconds % 60
    IN  Digits(hours) \o <<":">> \o Pad2(minutes) \o <<":">> \o Pad2(secs)

\* app.format_time that takes all the minutes, the hours' ones included
app_format_time_whole_minutes(seconds) ==
    LET hours == seconds \div 3600
        minutes == seconds \div 60
        secs == seconds % 60
    IN  Digits(hours) \o <<":">> \o Pad2(minutes) \o <<":">> \o Pad2(secs)

\* the copy of format_time in app.py
app_format_time(seconds) ==
    LET hours == seconds \div 3600
        minutes == (seconds % 3600) \div 60
        secs == seconds % 60
    IN  Digits(hours) \o <<":">> \o Pad2(minutes) \o <<":">> \o Pad2(secs)

\* the arguments format_time is applied to: every duration up to MaxSeconds,
\* and two with hours of two and of three digits
SecondsVals == (0..MaxSeconds) \cup {10 * 3600 + MaxSeconds, 100 * 3600 + MaxSeconds}

\* ---- generate_run_names ----
\* The activities frame as generate_run_names reads it: the columns Activity
\* ID and Date, the start time counted in slots of a day from day 0; an
\* activity is listed once.
NameRows == [activity_id : 1..MaxRows + 1, Date : 0..MaxStart]

NameFrames ==
    {f \in SeqsUpTo(NameRows, MaxRows + 1) :
        /\ Len(f) >= 1
        /\ \A i, j \in 1..Len(f) : i # j => f[i].activity_id # f[j].activity_id}

\* datetime.date() and cast(pl.Date): the calendar day of a start time
DateOf(start) == start \div SlotsPerDay

\* DataFrame.sort("Date"): ascending, equal keys in the order this build
\* gives them (maintain_order is not requested)
StableSortByDate(rows) ==
    LET n == Len(rows)
        Rank(i) == Cardinality({j \in 1..n : rows[j].Date < rows[i].Date})
                   + Cardinality({j \in 1..i : rows[j].Date = rows[i].Date})
    IN  [p \in 1..n |-> rows[CHOOSE i \in 1..n : Rank(i) = p]]

sort_Date(rows) ==
    IF sort_ties = "keep" THEN StableSortByDate(rows)
    ELSE StableSortByDate(Reverse(rows))

\* group_by(Date as date).agg(count), filter(count > 1): the dates of more
\* than one activity
dates_with_multiples(activities_df) ==
    {d \in {DateOf(activities_df[k].Date) : k \in 1..Len(activities_df)} :
        Cardinality({k \in 1..Len(activities_df) : DateOf(activities_df[k].Date) = d}) > 1}

\* a run name: str(date) as <<date>>, f"{date} #{index}" as <<date, index>>
RunName(date, index, multiples) ==
    IF date \in multiples THEN <<date, index>> ELSE <<date>>

\* for row in rows, continued from the k-th row
RECURSIVE run_names_loop(_, _, _, _, _)
run_names_loop(run_names, date_index_map, rows, k, multiples) ==
    IF k > Len(rows) THEN run_names
    ELSE LET activity_id == rows[k].activity_id
             date == DateOf(rows[k].Date)
             index == (IF date \in DOMAIN date_index_map THEN date_index_map[date] ELSE 0) + 1
         IN  run_names_loop(
                [i \in DOMAIN run_names \cup {activity_id} |->
                    IF i = activity_id THEN RunName(date, index, multiples)
                    ELSE run_names[i]],
                [d \in DOMAIN date_index_map \cup {date} |->
                    IF d = date THEN index ELSE date_index_map[d]],
                rows, k + 1, multiples)

\* generate_run_names that numbers the runs in the order of the frame
generate_run_names_unsorted(activities_df) ==
    run_names_loop(<<>>, <<>>, activities_df, 1, dates_with_multiples(activities_df))

generate_run_names(activities_df) ==
    run_names_loop(<<>>, <<>>, sort_Date(activities_df), 1,
                   dates_with_multiples(activities_df))


\* ---- get_activities ----
\* The athlete's activities upstream: the items (ids, newest first), the most
\* the API serves in one page, and the page whose request fails (0: none).
Upstream(items, max_per_page, fails_at) ==
    [items |-> items, max_per_page |-> max_per_page, fails_at |-> fails_at]

\* auth.get_athlete_activities(per_page, page): requests.get +
\* raise_for_status + json
get_athlete_activities(upstream, per_page, page) ==
    IF upstream.fails_at = page THEN [kind |-> "error", data |-> <<>>]
    ELSE LET size == Min({per_page, upstream.max_per_page})
             from == (page - 1) * size + 1
             to == Min({page * size, Len(upstream.items)})
         IN  [kind |-> "page", data |-> SubSeq(upstream.items, from, to)]

\* get_activities before its first request, and no get_activities running
StartPaging(upstream, per_page) ==
    [pc |-> "request", page |-> 1, activities |-> <<>>, requested |-> <<>>,
     upstream |-> upstream, per_page |-> per_page]

Idle ==
    [pc |-> "idle", page |-> 0, activities |-> <<>>, requested |-> <<>>,
     upstream |-> Upstream(<<>>, 0, 0), per_page |-> 0]

\* fetch_page that stops after a full page
fetch_page_stops_on_full(p) ==
    LET response_data == get_athlete_activities(p.upstream, p.per_page, p.page)
        p1 == [p EXCEPT !.requested = Append(@, p.page)]
    IN  IF response_data.kind = "error" THEN [p1 EXCEPT !.pc = "raised"]
        ELSE IF response_data.data = <<>> THEN [p1 EXCEPT !.pc = "done"]
        ELSE IF Len(response_data.data) <= p.per_page
        THEN [p1 EXCEPT !.activities = @ \o response_data.data, !.pc = "done"]
        ELSE [p1 EXCEPT !.activities = @ \o response_data.data, !.page = @ + 1]

\* one turn of the while loop: request the page, stop on an empty one, extend,
\* stop on a short one, else go on to the next page; a failed request raises
fetch_page(p) ==
    LET response_data == get_athlete_activities(p.upstream, p.per_page, p.page)
        p1 == [p EXCEPT !.requested = Append(@, p.page)]
    IN  IF response_data.kind = "error" THEN [p1 EXCEPT !.pc = "raised"]
        ELSE IF response_data.data = <<>> THEN [p1 EXCEPT !.pc = "done"]
        ELSE IF Len(response_data.data) < p.per_page
        THEN [p1 EXCEPT !.activities = @ \o response_data.data, !.pc = "done"]
        ELSE [p1 EXCEPT !.activities = @ \o response_data.data, !.page = @ + 1]

\* the loop run to its end
RECURSIVE run_paging(_)
run_paging(p) == IF p.pc # "request" THEN p ELSE run_paging(fetch_page(p))

get_activities(upstream, per_page) == run_paging(StartPaging(upstream, per_page))

\* ---- the refresh pass of the dashboard ----
NoFlags == [refresh_all |-> FALSE, refresh_existing |-> FALSE]

\* for activity_id in ...: get_activity_timeseries(activity_id, force_refresh=True),
\* continued from the k-th id
RECURSIVE refresh_loop(_, _, _)
refresh_loop(c, ids, k) ==
    IF k > Len(ids) THEN c
    ELSE refresh_loop(get_activity_timeseries(c, ids[k], TRUE), ids, k + 1)


\* ---- the calls as actions ----
\* The record of a call: its arguments, what it returned (ret2: the second
\* frame), the upstream requests it made and their answers, and whether the
\* call before it was the same call (repeat), one that made requests (warm).
Call(op, id, force, acts, ret, ret2, c, raised) ==
    LET repeat == /\ last.op = op /\ last.activity_id = id
                  /\ last.force_refresh = force /\ last.activities = acts
    IN  [op |-> op, activity_id |-> id, force_refresh |-> force, activities |-> acts,
         ret |-> ret, ret2 |-> ret2, fetched |-> c.fetched,
         answers |-> [i \in Range(c.fetched) |-> get_activity_streams(c, i)],
         raised |-> raised, repeat |-> repeat,
         warm |-> repeat /\ last.fetched # <<>>]

NoCall ==
    [op |-> "init", activity_id |-> 0, force_refresh |-> FALSE, activities |-> <<>>,
     ret |-> <<>>, ret2 |-> <<>>, fetched |-> <<>>, answers |-> <<>>,
     raised |-> FALSE, repeat |-> FALSE, warm |-> FALSE]

\* what the Streams API can answer here: a 1 Hz time stream, any distances
Ticks(n) == [k \in 1..n |-> k - 1]

StoreResponses ==
    {Stream(Ticks(n), d) : n \in 0..StoreLen, d \in SeqsUpTo({0, 40}, StoreLen)}
        \cup {Err}

\* what the Streams API answers during a refresh: a failure, or a stream of
\* at most one sample (well-formed, empty or of unequal lengths)
RefreshResponses ==
    {Stream(Ticks(n), d) : n \in 0..1, d \in SeqsUpTo({0, 40}, 1)} \cup {Err}

\* the ids a default-mode call over these activities asks the API for
Missing(acts) == Range(acts) \ (failed_activities \cup DOMAIN streams_cache)

GetActivityTimeseries(activity_id, force_refresh) ==
    \E answers \in [(IF force_refresh THEN {activity_id} ELSE Missing(<<activity_id>>))
                        -> StoreResponses] :
        \E c \in {get_activity_timeseries(Client(answers), activity_id, force_refresh)} :
            /\ streams_cache' = c.cache
            /\ failed_activities' = c.failed
            /\ last' = Call("get_activity_timeseries", activity_id, force_refresh, <<>>,
                            c.ret, <<>>, c, FALSE)
            /\ UNCHANGED <<sort_ties, session_state, paging>>

ComputePersonalBestTimes(activities) ==
    \E answers \in [Missing(activities) -> StoreResponses] :
        \E r \in {compute_personal_best_times(Client(answers), activities)} :
            /\ streams_cache' = r.c.cache
            /\ failed_activities' = r.c.failed
            /\ last' = Call("compute_personal_best_times", 0, FALSE, activities,
                            r.ret, <<>>, r.c, FALSE)
            /\ UNCHANGED <<sort_ties, session_state, paging>>

GetTimeAndDistanceDataframes(activities) ==
    \E answers \in [Missing(activities) -> StoreResponses] :
        \E r \in {get_time_and_distance_dataframes(Client(answers), activities)} :
            /\ streams_cache' = r.c.cache
            /\ failed_activities' = r.c.failed
            /\ last' = Call("get_time_and_distance_dataframes", 0, FALSE, activities,
                            r.time_df, r.distance_df, r.c, r.raised)
            /\ UNCHANGED <<sort_ties, session_state, paging>>

ClearFailed ==
    /\ failed_activities' = clear_failed(failed_activities)
    /\ last' = Call("clear_failed", 0, FALSE, <<>>, <<>>, <<>>, Client(<<>>), FALSE)
    /\ UNCHANGED <<streams_cache, sort_ties, session_state, paging>>

\* get_stats_summary reads its argument only; the frame is recorded in the
\* call's activities
GetStatsSummary(activities_df) ==
    /\ last' = Call("get_stats_summary", 0, FALSE, activities_df,
                    get_stats_summary(activities_df), <<>>, Client(<<>>), FALSE)
    /\ UNCHANGED <<streams_cache, failed_activities, sort_ties, session_state, paging>>


GenerateRunNames(activities_df) ==
    /\ last' = Call("generate_run_names", 0, FALSE, activities_df,
                    generate_run_names(activities_df), <<>>, Client(<<>>), FALSE)
    /\ UNCHANGED <<streams_cache, failed_activities, sort_ties, session_state, paging>>

\* format_time of strava_api.py; the argument is recorded as <<seconds>>
FormatTime(seconds) ==
    /\ last' = Call("format_time", 0, FALSE, <<seconds>>,
                    format_time(seconds), <<>>, Client(<<>>), FALSE)
    /\ UNCHANGED <<streams_cache, failed_activities, sort_ties, session_state, paging>>

\* format_time of app.py
AppFormatTime(seconds) ==
    /\ last' = Call("app.format_time", 0, FALSE, <<seconds>>,
                    app_format_time(seconds), <<>>, Client(<<>>), FALSE)
    /\ UNCHANGED <<streams_cache, failed_activities, sort_ties, session_state, paging>>


\* the button "Pull New Activities": set the flag and rerun the script
PressPullNew ==
    /\ session_state' = [session_state EXCEPT !.refresh_all = TRUE]
    /\ last' = Call("pull_new_activities", 0, FALSE, <<>>, <<>>, <<>>, Client(<<>>), FALSE)
    /\ UNCHANGED <<streams_cache, failed_activities, sort_ties, paging>>

\* the button "Refresh Existing"
PressRefreshExisting ==
    /\ session_state' = [session_state EXCEPT !.refresh_existing = TRUE]
    /\ last' = Call("refresh_existing", 0, FALSE, <<>>, <<>>, <<>>, Client(<<>>), FALSE)
    /\ UNCHANGED <<streams_cache, failed_activities, sort_ties, paging>>

\* The script from the reading of the flags to their reset, on a client loaded
\* from the saved store: the listing is fetched (items upstream; the request
\* may fail), and under a flag every listed id is force-refreshed, after
\* clear_failed under refresh_all. Every forced call saves the store. An
\* exception ends the run with the flags as they were: from get_activities,
\* and from the column "Activity ID", which the frame of no activities lacks;
\* nothing is saved before either, so the next run loads the store unchanged.
\* The call records the flags it read.
RefreshPass(items, listing_fails) ==
    \E answers \in [Range(items) -> RefreshResponses] :
    \E listing \in {get_activities(Upstream(items, PerPageDefault,
                                            IF listing_fails THEN 1 ELSE 0),
                                   PerPageDefault)} :
        IF listing.pc = "raised"
        THEN /\ last' = Call("refresh_pass", 0, TRUE, <<>>, session_state, <<>>,
                             Client(answers), TRUE)
             /\ UNCHANGED <<streams_cache, failed_activities, sort_ties,
                            session_state, paging>>
        ELSE IF ~(session_state.refresh_all \/ session_state.refresh_existing)
        THEN /\ last' = Call("refresh_pass", 0, TRUE, listing.activities, session_state,
                             <<>>, Client(answers), FALSE)
             /\ UNCHANGED <<streams_cache, failed_activities, sort_ties,
                            session_state, paging>>
        ELSE IF listing.activities = <<>>
        THEN /\ last' = Call("refresh_pass", 0, TRUE, listing.activities, session_state,
                             <<>>, Client(answers), TRUE)
             /\ UNCHANGED <<streams_cache, failed_activities, sort_ties,
                            session_state, paging>>
        ELSE \E c \in {refresh_loop(
                         [Client(answers) EXCEPT !.failed =
                             IF session_state.refresh_all THEN clear_failed(@) ELSE @],
                         listing.activities, 1)} :
                /\ streams_cache' = c.cache
                /\ failed_activities' = c.failed
                /\ session_state' = [refresh_all |-> FALSE, refresh_existing |-> FALSE]
                /\ last' = Call("refresh_pass", 0, TRUE, listing.activities,
                                session_state, <<>>, c, FALSE)
                /\ UNCHANGED <<sort_ties, paging>>

\* a call of get_activities, up to its first request
GetActivities(upstream, per_page) ==
    /\ paging.pc # "request"
    /\ paging' = StartPaging(upstream, per_page)
    /\ UNCHANGED <<streams_cache, failed_activities, sort_ties, last, session_state>>

\* one turn of its loop
FetchPage ==
    /\ paging.pc = "request"
    /\ paging' = fetch_page(paging)
    /\ UNCHANGED <<streams_cache, failed_activities, sort_ties, last, session_state>>


\* ---- the client and its store ----
\* load_cache with no cache files
Init ==
    /\ streams_cache = <<>>
    /\ failed_activities = {}
    /\ sort_ties \in {"keep", "reverse"}
    /\ last = NoCall
    /\ session_state = NoFlags
    /\ paging = Idle

Next ==
    \/ \E id \in Ids, force \in BOOLEAN : GetActivityTimeseries(id, force)
    \/ ClearFailed
    \/ \E acts \in ActLists : ComputePersonalBestTimes(acts)
    \/ \E acts \in ActLists : GetTimeAndDistanceDataframes(acts)
    \/ \E activities_df \in StoreStatFrames : GetStatsSummary(activities_df)

Spec == Init /\ [][Next]_vars

\* ---- the engines on full series ----
\* load_cache after earlier sessions: each id is cached with a stream that
\* passed the checks of get_activity_timeseries, or is marked failed
Cacheable ==
    {r \in Streams : Len(r.time) = Len(r.distance) /\ Len(r.time) >= 1}

Caches == UNION {[D -> Cacheable] : D \in SUBSET Ids}

CachedLen(cache, id) == IF id \in DOMAIN cache THEN Len(cache[id].time) ELSE 0

RECURSIVE TotalLen(_, _)
TotalLen(cache, S) ==
    IF S = {} THEN 0
    ELSE LET id == CHOOSE x \in S : TRUE
         IN  CachedLen(cache, id) + TotalLen(cache, S \ {id})

\* Ids are interchangeable keys: only the numberings with the longer stream
\* first are enumerated; ActLists still lists them in either order.
InitEngine ==
    /\ streams_cache \in {cache \in Caches :
            /\ TotalLen(cache, Ids) <= MaxTotal
            /\ \A i, j \in Ids : i < j => CachedLen(cache, i) >= CachedLen(cache, j)}
    /\ failed_activities = Ids \ DOMAIN streams_cache
    /\ sort_ties \in {"keep", "reverse"}
    /\ last = NoCall
    /\ session_state = NoFlags
    /\ paging = Idle

NextEngine ==
    \/ \E acts \in ActLists : ComputePersonalBestTimes(acts)
    \/ \E acts \in ActLists : GetTimeAndDistanceDataframes(acts)

SpecEngine == InitEngine /\ [][NextEngine]_vars

\* ---- the views that read no telemetry ----
\* Each is a function of its argument alone: a behaviour makes one call.
NextViews ==
    /\ last = NoCall
    /\ \/ \E activities_df \in StatFrames(MaxRows) : GetStatsSummary(activities_df)
       \/ \E activities_df \in NameFrames : GenerateRunNames(activities_df)
       \/ \E seconds \in SecondsVals : FormatTime(seconds)
       \/ \E seconds \in SecondsVals : AppFormatTime(seconds)

SpecViews == Init /\ [][NextViews]_vars

\* ---- the dashboard's refresh ----
\* The listings the dashboard gets: no activity, or each activity once
Listings == ActLists \cup {<<>>}

\* A set flag is acted on by the very next run of the script, before any
\* other use of the client: the buttons and the runs of the script.
NextApp ==
    \/ PressPullNew
    \/ PressRefreshExisting
    \/ \E items \in Listings, listing_fails \in BOOLEAN : RefreshPass(items, listing_fails)

SpecApp == Init /\ [][NextApp]_vars

\* ---- get_activities page by page ----
\* the athlete has 0..MaxUpstream activities; the API serves pages of at most
\* MaxPerPage, or one fewer, and may fail on the first or the second request
Upstreams ==
    {Upstream([k \in 1..n |-> k], m, f) :
        n \in 0..MaxUpstream, m \in {MaxPerPage - 1, MaxPerPage}, f \in 0..2}

NextPaging ==
    \/ \E upstream \in Upstreams, per_page \in 1..MaxPerPage :
          GetActivities(upstream, per_page)
    \/ FetchPage

\* the loop is sequential code: a started call keeps taking its turns
SpecPaging == Init /\ [][NextPaging]_vars /\ WF_vars(FetchPage)


\* ---- what the claims speak of ----
Abs(x) == IF x >= 0 THEN x ELSE -x

\* The samples (seconds, metres) a default-mode call works on for an id, in
\* time order as this build sorts them: nothing for a failed or absent id.
Samples(id) ==
    IF id \in failed_activities \/ id \notin DOMAIN streams_cache THEN <<>>
    ELSE LET s == streams_cache[id]
         IN  sort_elapsed_seconds(
                [k \in 1..Len(s.time) |->
                    [elapsed_seconds |-> s.time[k], meters |-> s.distance[k]]])

\* a distance of m metres in miles, to the nearest hundredth (m / 1609.34 is
\* never half-way between two hundredths)
Hundredths(m) ==
    CHOOSE h \in (-Abs(m))..Abs(m) : 2 * Abs(10000 * m - UnitsPerMile * h) < UnitsPerMile

\* every window i < j of a series, as <<rounded distance, elapsed time, i>>
WindowsOf(S) ==
    {<<Hundredths(S[w[2]].meters - S[w[1]].meters),
       S[w[2]].elapsed_seconds - S[w[1]].elapsed_seconds, w[1]>> :
        w \in {v \in (1..Len(S)) \X (1..Len(S)) : v[1] < v[2]}}

Windows(activities) == UNION {WindowsOf(Samples(id)) : id \in Range(activities)}

TimesFor(W, d) == {w[2] : w \in {v \in W : v[1] = d}}

IsPB == last.op = "compute_personal_best_times"
IsTD == last.op = "get_time_and_distance_dataframes"
IsTS == last.op = "get_activity_timeseries"

\* the table the engine gives for a list, from the store as it is now
PBTable(activities) == compute_personal_best_times(Client(<<>>), activities).ret

\* the time recorded for a key in a table, Null when it has no such row
EntryOf(table, d) ==
    LET rows == {k \in 1..Len(table) : table[k].distance_mi = d}
    IN  IF rows = {} THEN Null ELSE table[CHOOSE k \in rows : TRUE].pb_seconds

\* C1: the PB table is the brute-force table: its keys are exactly the rounded
\* distances above 0.01 mi of all windows i < j of all the activities' sorted
\* series, and each pb_seconds is the least elapsed time of those windows.
C1_PBIsAllPairsMinimum ==
    IsPB =>
        \E W \in {Windows(last.activities)} :
            /\ {last.ret[k].distance_mi : k \in 1..Len(last.ret)}
                    = {w[1] : w \in {v \in W : v[1] > 1}}
            /\ \A k \in 1..Len(last.ret) :
                    last.ret[k].pb_seconds = Min(TimesFor(W, last.ret[k].distance_mi))

\* a table with an entry that no window starting at the first sample gives
C1_Witness ==
    /\ IsPB
    /\ \E W \in {Windows(last.activities)} :
         \E k \in 1..Len(last.ret) :
            \A w \in W : (w[1] = last.ret[k].distance_mi /\ w[3] = 1)
                            => w[2] > last.ret[k].pb_seconds

\* C5: a key reached in both of two activities carries the smaller of their
\* two best times, and the table of the faster activity alone has the same
\* entry for it.
C5_MergeKeepsSmaller ==
    (IsPB /\ Len(last.activities) = 2) =>
        \E Wa \in {WindowsOf(Samples(last.activities[1]))} :
        \E Wb \in {WindowsOf(Samples(last.activities[2]))} :
            \A d \in {w[1] : w \in {v \in Wa \cup Wb : v[1] > 1}} :
                (TimesFor(Wa, d) # {} /\ TimesFor(Wb, d) # {}) =>
                    LET ta == Min(TimesFor(Wa, d))
                        tb == Min(TimesFor(Wb, d))
                    IN  /\ EntryOf(last.ret, d) = Min({ta, tb})
                        /\ ta < tb =>
                             EntryOf(PBTable(<<last.activities[1]>>), d) = EntryOf(last.ret, d)
                        /\ tb < ta =>
                             EntryOf(PBTable(<<last.activities[2]>>), d) = EntryOf(last.ret, d)

\* two activities reach the same key, the second-listed one slower
C5_Witness ==
    /\ IsPB
    /\ Len(last.activities) = 2
    /\ \E Wa \in {WindowsOf(Samples(last.activities[1]))} :
       \E Wb \in {WindowsOf(Samples(last.activities[2]))} :
         \E k \in 1..Len(last.ret) :
            /\ TimesFor(Wa, last.ret[k].distance_mi) # {}
            /\ TimesFor(Wb, last.ret[k].distance_mi) # {}
            /\ Min(TimesFor(Wa, last.ret[k].distance_mi))
                 < Min(TimesFor(Wb, last.ret[k].distance_mi))

RowsOf(frame, id) == SelectSeq(frame, LAMBDA r : r.activity_id = id)

\* cumulative distance never falls along the sorted series (the spec's
\* Telemetry Series)
NonDecreasing(S) == \A k \in 1..(Len(S) - 1) : S[k].meters <= S[k + 1].meters

\* C2: the time-indexed rows of an activity have strictly increasing seconds
\* with no second missing between the first and the last, each second taking
\* the distance of the latest sample at or before it.
C2_TimeAxisHasNoGaps ==
    (IsTD /\ ~last.raised) =>
        \A id \in Range(last.activities) :
            \E S \in {Samples(id)} :
            \E rows \in {RowsOf(last.ret, id)} :
                S # <<>> =>
                    /\ Len(rows) >= 1
                    /\ \A k \in 1..(Len(rows) - 1) : rows[k + 1].second = rows[k].second + 1
                    /\ \A k \in 1..Len(rows) :
                          LET before == {i \in 1..Len(S) : S[i].elapsed_seconds <= rows[k].second}
                          IN  /\ before # {}
                              /\ rows[k].distance_mi = MetersToMiles(S[Max(before)].meters)

\* C3: for a series of at least two samples whose distance never falls, the
\* distance-indexed rows of the activity are the keys 0.00, 0.01, ... up to
\* floor(max_distance * 100) hundredths, in ascending order, each with the
\* elapsed time of the first sample at or beyond the key.
C3_DistanceAxisIsForwardAsOf ==
    (IsTD /\ \A id \in Range(last.activities) : NonDecreasing(Samples(id))) =>
        /\ ~last.raised
        /\ \A id \in Range(last.activities) :
            \E S \in {Samples(id)} :
            \E rows \in {RowsOf(last.ret2, id)} :
                Len(S) >= 2 =>
                    /\ Len(rows) =
                         ((10000 * Max({S[i].meters : i \in 1..Len(S)})) \div UnitsPerMile) + 1
                    /\ \A k \in 1..Len(rows) :
                          /\ rows[k].distance_mi = k - 1
                          /\ \E first \in 1..Len(S) :
                                /\ 10000 * S[first].meters >= (k - 1) * UnitsPerMile
                                /\ \A e \in 1..(first - 1) :
                                      10000 * S[e].meters < (k - 1) * UnitsPerMile
                                /\ rows[k].elapsed_seconds = S[first].elapsed_seconds

\* a series that reaches 0.03 mi after its first sample, and one that stays at 0
C3_Witness ==
    /\ IsTD
    /\ ~last.raised
    /\ \E id \in Range(last.activities) :
         \E rows \in {RowsOf(last.ret2, id)} :
            /\ Len(Samples(id)) >= 2
            /\ Len(rows) = 4
            /\ rows[4].elapsed_seconds > rows[1].elapsed_seconds
    /\ \E id \in Range(last.activities) :
         /\ Len(Samples(id)) >= 2
         /\ Len(RowsOf(last.ret2, id)) = 1

\* C7: an activity whose series has fewer than two samples has no row in the
\* time-indexed frame and none in the distance-indexed frame.
C7_ShortSeriesGivesNoRows ==
    IsTD =>
        \A id \in Range(last.activities) :
            Len(Samples(id)) < 2 =>
                /\ RowsOf(last.ret, id) = <<>>
                /\ RowsOf(last.ret2, id) = <<>>

\* an answer that get_activity_timeseries treats as a failed fetch
Failing(r) ==
    \/ r.kind = "error"
    \/ r.time = <<>>
    \/ r.distance = <<>>
    \/ Len(r.time) # Len(r.distance)

\* a call that reads series in default mode (force_refresh = False)
DefaultCall(call) ==
    \/ call.op \in {"compute_personal_best_times", "get_time_and_distance_dataframes"}
    \/ call.op = "get_activity_timeseries" /\ ~call.force_refresh

RemoveAt(s, k) == SubSeq(s, 1, k - 1) \o SubSeq(s, k + 1, Len(s))

\* C4: an id whose fetch fails is in the failed set after the call; and while
\* calls are made in default mode (no forced refresh, no clear_failed) a
\* failed id stays failed, is never requested upstream, and
\* get_activity_timeseries returns an empty series for it.
C4_FailedIdShortCircuits ==
    [][\A id \in Ids :
          /\ (id \in DOMAIN last'.answers /\ Failing(last'.answers[id]))
                => id \in failed_activities'
          /\ (id \in failed_activities /\ DefaultCall(last')) =>
                /\ id \in failed_activities'
                /\ id \notin Range(last'.fetched)
                /\ (last'.op = "get_activity_timeseries" /\ last'.activity_id = id)
                      => last'.ret = <<>>
      ]_vars

\* a default-mode call for an id marked failed: no request, no rows
C4_Witness ==
    /\ IsTS
    /\ ~last.force_refresh
    /\ last.activity_id \in failed_activities
    /\ last.fetched = <<>>
    /\ last.ret = <<>>

\* C8: an activity whose series has fewer than two samples, or none because
\* the id is failed, adds nothing: the table equals the table of the list
\* without that activity.
C8_ShortSeriesAddsNothing ==
    IsPB =>
        \A k \in 1..Len(last.activities) :
            Len(Samples(last.activities[k])) < 2 =>
                last.ret = PBTable(RemoveAt(last.activities, k))

\* a non-empty table from a list that also holds a one-sample activity
C8_Witness ==
    /\ IsPB
    /\ last.ret # <<>>
    /\ \E k \in 1..Len(last.activities) : Len(Samples(last.activities[k])) = 1

\* C9: a second compute_personal_best_times on the same list right after the
\* first returns the same table, and asks upstream for nothing.
C9_SecondRunSameTable ==
    [][(IsPB /\ last'.op = "compute_personal_best_times"
            /\ last'.activities = last.activities)
          => (last'.ret = last.ret /\ last'.fetched = <<>>)
      ]_vars

\* the second run, after a first run that fetched, with a non-empty table
C9_Witness ==
    /\ IsPB
    /\ last.repeat
    /\ last.warm
    /\ last.ret # <<>>

\* C10: a default-mode get_activity_timeseries for an id that is cached and
\* not failed returns the cached stream's rows (metres in miles), asks
\* upstream for nothing and changes neither the cache nor the failed set.
C10_CachedIdIsNotFetched ==
    [][(/\ last'.op = "get_activity_timeseries"
        /\ ~last'.force_refresh
        /\ last'.activity_id \in DOMAIN streams_cache
        /\ last'.activity_id \notin failed_activities)
          => LET cached == streams_cache[last'.activity_id]
             IN  /\ Len(last'.ret) = Len(cached.time)
                 /\ \A k \in 1..Len(last'.ret) :
                       /\ last'.ret[k].elapsed_seconds = cached.time[k]
                       /\ last'.ret[k].distance_mi = 100 * cached.distance[k]
                 /\ last'.fetched = <<>>
                 /\ streams_cache' = streams_cache
                 /\ failed_activities' = failed_activities
      ]_vars

\* a default-mode call answered from the cache
C10_Witness ==
    /\ IsTS
    /\ ~last.force_refresh
    /\ last.activity_id \in DOMAIN streams_cache
    /\ last.activity_id \notin failed_activities
    /\ last.fetched = <<>>
    /\ Len(last.ret) = 2

\* the rows a well-formed answer parses to: one per sample, metres in miles
RowsOfAnswer(rows, r) ==
    /\ Len(rows) = Len(r.time)
    /\ \A k \in 1..Len(rows) :
          /\ rows[k].elapsed_seconds = r.time[k]
          /\ rows[k].distance_mi = 100 * r.distance[k]

\* C11 as stated: a default-mode get_activity_timeseries for an id that is not
\* in the streams cache returns an empty series, as it does for a failed id.
C11_CacheMissGivesEmpty ==
    [][(/\ last'.op = "get_activity_timeseries"
        /\ ~last'.force_refresh
        /\ last'.activity_id \notin DOMAIN streams_cache)
          => last'.ret = <<>>
      ]_vars

\* C11 amended: a default-mode get_activity_timeseries for an id that is not
\* in the streams cache returns an empty series without a request when the id
\* is failed; otherwise it requests the stream once, returns its rows and
\* caches it when the answer is well-formed, and returns an empty series when
\* the fetch fails.
C11_CacheMissIsFetched ==
    [][(/\ last'.op = "get_activity_timeseries"
        /\ ~last'.force_refresh
        /\ last'.activity_id \notin DOMAIN streams_cache)
          => IF last'.activity_id \in failed_activities
             THEN last'.ret = <<>> /\ last'.fetched = <<>>
             ELSE /\ last'.fetched = <<last'.activity_id>>
                  /\ IF Failing(last'.answers[last'.activity_id])
                     THEN last'.ret = <<>>
                     ELSE /\ last'.ret # <<>>
                          /\ RowsOfAnswer(last'.ret, last'.answers[last'.activity_id])
                          /\ streams_cache'[last'.activity_id]
                                = last'.answers[last'.activity_id]
      ]_vars

\* a default-mode call that missed the cache, fetched and returned two rows
C11_Witness ==
    /\ IsTS
    /\ ~last.force_refresh
    /\ last.fetched = <<last.activity_id>>
    /\ Len(last.ret) = 2

IsStats == last.op = "get_stats_summary"

\* the calls that compute a derived table or the aggregation dict
DerivedCall(call) ==
    call.op \in {"compute_personal_best_times", "get_time_and_distance_dataframes",
                 "get_stats_summary"}

\* C12 as stated: computing the derived tables or the aggregation dict leaves
\* the streams cache and the failed set as they were before the call.
C12_DerivedCallsAreReadOnly ==
    [][DerivedCall(last')
          => (streams_cache' = streams_cache /\ failed_activities' = failed_activities)
      ]_vars

\* C12 amended: get_stats_summary leaves the streams cache and the failed set
\* as they were; so do the two table computations when every listed id is
\* already cached or failed. For the listed ids that are neither, they request
\* the stream and add exactly the requested ids, each to the cache (with the
\* well-formed answer) or to the failed set; no entry that was there is
\* changed or removed.
C12_DerivedCallsOnlyAddFetched ==
    [][/\ last'.op = "get_stats_summary"
            => (streams_cache' = streams_cache /\ failed_activities' = failed_activities)
       /\ last'.op \in {"compute_personal_best_times", "get_time_and_distance_dataframes"}
            => /\ \A id \in DOMAIN streams_cache :
                     id \in DOMAIN streams_cache' /\ streams_cache'[id] = streams_cache[id]
               /\ failed_activities \subseteq failed_activities'
               /\ Range(last'.fetched) \subseteq Missing(last'.activities)
               /\ \A id \in Range(last'.fetched) :
                     IF Failing(last'.answers[id])
                     THEN id \in failed_activities' /\ id \notin DOMAIN streams_cache'
                     ELSE /\ id \notin failed_activities'
                          /\ id \in DOMAIN streams_cache'
                          /\ streams_cache'[id] = last'.answers[id]
               /\ (DOMAIN streams_cache' \ DOMAIN streams_cache)
                     \cup (failed_activities' \ failed_activities) = Range(last'.fetched)
               /\ Missing(last'.activities) = {}
                     => (streams_cache' = streams_cache
                            /\ failed_activities' = failed_activities)
      ]_vars

\* a resampling over two activities that fetched one of them and found the
\* other in the cache
C12_Witness ==
    /\ IsTD
    /\ Len(last.activities) = 2
    /\ Len(last.fetched) = 1
    /\ \E id \in Range(last.activities) :
          /\ id \notin Range(last.fetched)
          /\ id \in DOMAIN streams_cache
          /\ id \notin failed_activities
          /\ RowsOf(last.ret, id) # <<>>

\* the sum of a column, from the first row on
RECURSIVE Total(_, _)
Total(rows, name) ==
    IF rows = <<>> THEN 0 ELSE rows[1][name] + Total(Tail(rows), name)

\* C13: get_stats_summary gives total_distance, total_duration and
\* total_elevation as the sums of the columns over the given activities and
\* num_activities as their count; for an empty input all four are 0.
C13_StatsAreColumnSums ==
    IsStats =>
        /\ last.ret.total_distance = Total(last.activities, "distance")
        /\ last.ret.total_duration = Total(last.activities, "duration")
        /\ last.ret.total_elevation = Total(last.activities, "elevation")
        /\ last.ret.num_activities = Len(last.activities)
        /\ last.activities = <<>> =>
              /\ last.ret.total_distance = 0
              /\ last.ret.total_duration = 0
              /\ last.ret.total_elevation = 0
              /\ last.ret.avg_pace = 0
              /\ last.ret.num_activities = 0

\* a summary of two activities whose three totals differ from one another
\* and from each row's value
C13_Witness ==
    /\ IsStats
    /\ Len(last.activities) = 2
    /\ last.ret.total_distance > last.ret.total_duration
    /\ last.ret.total_duration > last.ret.total_elevation
    /\ last.ret.total_elevation > 0
    /\ \A k \in 1..2 : /\ last.activities[k].distance > 0
                       /\ last.activities[k].duration > 0

IsNames == last.op = "generate_run_names"

\* the rows of a frame that start on the calendar date of its k-th row
SameDate(frame, k) ==
    {j \in 1..Len(frame) : DateOf(frame[j].Date) = DateOf(frame[k].Date)}

\* C14: generate_run_names maps every activity id of the frame to a label:
\* the bare date when the date has one activity, otherwise the date with an
\* ordinal, the ordinals of a date being 1, 2, ... in ascending start-time
\* order; distinct ids get distinct labels.
C14_RunNamesAreDatedOrdinals ==
    IsNames =>
        \E frame \in {last.activities} :
        \E names \in {last.ret} :
            /\ DOMAIN names = {frame[k].activity_id : k \in 1..Len(frame)}
            /\ \A k \in 1..Len(frame) :
                  IF Cardinality(SameDate(frame, k)) = 1
                  THEN names[frame[k].activity_id] = <<DateOf(frame[k].Date)>>
                  ELSE /\ Len(names[frame[k].activity_id]) = 2
                       /\ names[frame[k].activity_id][1] = DateOf(frame[k].Date)
                       /\ names[frame[k].activity_id][2]
                             \in 1..Cardinality(SameDate(frame, k))
            /\ \A k \in 1..Len(frame) :
                  \A j \in SameDate(frame, k) :
                      frame[j].Date < frame[k].Date =>
                          names[frame[j].activity_id][2] < names[frame[k].activity_id][2]
            /\ \A j, k \in 1..Len(frame) :
                  frame[j].activity_id # frame[k].activity_id =>
                      names[frame[j].activity_id] # names[frame[k].activity_id]

\* two runs on one date listed latest first, and a lone run on another date
C14_Witness ==
    /\ IsNames
    /\ Len(last.activities) = 3
    /\ DateOf(last.activities[1].Date) = DateOf(last.activities[2].Date)
    /\ last.activities[1].Date > last.activities[2].Date
    /\ DateOf(last.activities[3].Date) # DateOf(last.activities[1].Date)
    /\ last.ret[last.activities[1].activity_id][2] = 2
    /\ Len(last.ret[last.activities[3].activity_id]) = 1

IsDigits(str) == \A k \in 1..Len(str) : \E d \in 1..10 : str[k] = DigitChars[d]

\* the number a string of decimal digits reads as
RECURSIVE ValueOf(_)
ValueOf(str) ==
    IF str = <<>> THEN 0
    ELSE 10 * ValueOf(SubSeq(str, 1, Len(str) - 1))
            + ((CHOOSE d \in 1..10 : str[Len(str)] = DigitChars[d]) - 1)

\* a string reads H:MM:SS for the seconds s: hours of any length, two digits
\* of minutes and two of seconds, both at most 59, adding up to s
ReadsAs(str, s) ==
    LET n == Len(str)
        h == SubSeq(str, 1, n - 6)
        m == SubSeq(str, n - 4, n - 3)
        c == SubSeq(str, n - 1, n)
    IN  /\ n >= 7
        /\ str[n - 5] = ":"
        /\ str[n - 2] = ":"
        /\ IsDigits(h) /\ IsDigits(m) /\ IsDigits(c)
        /\ ValueOf(m) <= 59
        /\ ValueOf(c) <= 59
        /\ ValueOf(h) * 3600 + ValueOf(m) * 60 + ValueOf(c) = s

\* C15: for every non-negative number of seconds s, format_time (both copies)
\* renders H:MM:SS with hours h, minutes m <= 59 and seconds c <= 59 padded
\* to two digits, and h * 3600 + m * 60 + c = s.
C15_FormatTimeIsHMS ==
    last.op \in {"format_time", "app.format_time"} =>
        ReadsAs(last.ret, last.activities[1])

\* 1:02:05, from each of the two copies
C15_Witness ==
    /\ last.op = "format_time"
    /\ last.activities = <<3725>>
    /\ last.ret = <<"1", ":", "0", "2", ":", "0", "5">>

C15_WitnessApp ==
    /\ last.op = "app.format_time"
    /\ last.activities = <<3725>>
    /\ last.ret = <<"1", ":", "0", "2", ":", "0", "5">>

\* C16 as stated: once an id has a stream in the streams cache, no call
\* (get_activity_timeseries default or forced, mark_failed, clear_failed)
\* changes or removes the value stored for it.
C16_CacheEntryIsImmutable ==
    [][\A id \in DOMAIN streams_cache :
          /\ id \in DOMAIN streams_cache'
          /\ streams_cache'[id] = streams_cache[id]
      ]_vars

\* C16 amended: once an id has a stream in the streams cache no call removes
\* it, and no default-mode call, mark_failed or clear_failed changes it; only
\* a forced get_activity_timeseries for that id whose fetch returns a
\* well-formed stream replaces the value, with the stream just fetched.
C16_OnlyForcedRefreshReplaces ==
    [][\A id \in DOMAIN streams_cache :
          /\ id \in DOMAIN streams_cache'
          /\ streams_cache'[id] # streams_cache[id] =>
                /\ last'.op = "get_activity_timeseries"
                /\ last'.force_refresh
                /\ last'.activity_id = id
                /\ ~Failing(last'.answers[id])
                /\ streams_cache'[id] = last'.answers[id]
      ]_vars

\* a forced refresh of a cached id whose fetch failed: the id is marked
\* failed and its cached stream is still there
C16_Witness ==
    /\ IsTS
    /\ last.force_refresh
    /\ last.fetched = <<last.activity_id>>
    /\ Failing(last.answers[last.activity_id])
    /\ last.activity_id \in failed_activities
    /\ last.activity_id \in DOMAIN streams_cache

\* C17: when the fetch raises, or returns a stream whose time or distance data
\* is empty or whose lengths differ, get_activity_timeseries returns an empty
\* series, adds the id to the failed set and leaves the streams cache as it
\* was; the same holds of the store for every failed fetch an engine makes.
C17_FailedFetchIsAbsorbed ==
    [][\A id \in DOMAIN last'.answers :
          Failing(last'.answers[id]) =>
              /\ id \in failed_activities'
              /\ id \in DOMAIN streams_cache' <=> id \in DOMAIN streams_cache
              /\ id \in DOMAIN streams_cache => streams_cache'[id] = streams_cache[id]
              /\ last'.op = "get_activity_timeseries" =>
                    /\ last'.ret = <<>>
                    /\ streams_cache' = streams_cache
                    /\ failed_activities' = failed_activities \cup {id}
      ]_vars

\* a fetch answered with two times and one distance: no rows, the id failed
\* and not cached
C17_Witness ==
    /\ IsTS
    /\ last.fetched = <<last.activity_id>>
    /\ Len(last.answers[last.activity_id].time) = 2
    /\ Len(last.answers[last.activity_id].distance) = 1
    /\ last.ret = <<>>
    /\ last.activity_id \in failed_activities
    /\ last.activity_id \notin DOMAIN streams_cache

\* C18: the time-indexed rows of an activity are one row per second that has
\* a sample, and the row's distance is that of the last sample of the
\* time-sorted series within that second.
C18_BucketTakesLastSample ==
    (IsTD /\ ~last.raised) =>
        \A id \in Range(last.activities) :
            \E S \in {Samples(id)} :
            \E rows \in {RowsOf(last.ret, id)} :
                S # <<>> =>
                    /\ {rows[k].second : k \in 1..Len(rows)}
                          = {S[i].elapsed_seconds : i \in 1..Len(S)}
                    /\ Len(rows) = Cardinality({S[i].elapsed_seconds : i \in 1..Len(S)})
                    /\ \A k \in 1..Len(rows) :
                          rows[k].distance_mi =
                             MetersToMiles(
                                S[Max({i \in 1..Len(S) :
                                         S[i].elapsed_seconds = rows[k].second})].meters)

\* a second that holds two samples of different distances
C18_Witness ==
    /\ IsTD
    /\ ~last.raised
    /\ \E id \in Range(last.activities) :
         \E S \in {Samples(id)} :
            /\ RowsOf(last.ret, id) # <<>>
            /\ \E i, j \in 1..Len(S) :
                  /\ i < j
                  /\ S[i].elapsed_seconds = S[j].elapsed_seconds
                  /\ S[i].meters # S[j].meters

\* C19: the PB table has exactly one row per distinct rounded distance of an
\* accepted window (above 0.01 mi) of some activity, in strictly ascending
\* order of distance_mi.
C19_OneRowPerDistanceAscending ==
    IsPB =>
        \E keys \in {{w[1] : w \in {v \in Windows(last.activities) : v[1] > 1}}} :
            /\ Len(last.ret) = Cardinality(keys)
            /\ {last.ret[k].distance_mi : k \in 1..Len(last.ret)} = keys
            /\ \A k \in 1..(Len(last.ret) - 1) :
                  last.ret[k].distance_mi < last.ret[k + 1].distance_mi

\* a table of two distances, the larger one found first: the first-listed
\* activity has a window of it and none of the smaller
C19_Witness ==
    /\ IsPB
    /\ Len(last.ret) = 2
    /\ Len(last.activities) = 2
    /\ \E Wa \in {WindowsOf(Samples(last.activities[1]))} :
          /\ TimesFor(Wa, last.ret[2].distance_mi) # {}
          /\ TimesFor(Wa, last.ret[1].distance_mi) = {}

\* C20: after a forced get_activity_timeseries has succeeded for an id of the
\* failed set (a successful call marks nothing failed, so an id failed after
\* it was failed before it), the next default-mode get_activity_timeseries
\* for the id returns the cached, non-empty series.
C20_ForcedRefreshEndsShortCircuit ==
    [][(/\ IsTS
        /\ last.force_refresh
        /\ last.ret # <<>>
        /\ last.activity_id \in failed_activities
        /\ last'.op = "get_activity_timeseries"
        /\ ~last'.force_refresh
        /\ last'.activity_id = last.activity_id)
          => /\ last'.ret # <<>>
             /\ RowsOfAnswer(last'.ret, streams_cache[last.activity_id])
      ]_vars

\* the lists that name the same activities as a list, in any order
Reorderings(activities) ==
    {p \in ActLists : Len(p) = Len(activities) /\ Range(p) = Range(activities)}

\* C22: the PB table does not depend on the order of the activities: every
\* permutation of the list, over the same telemetry, gives the same table.
C22_OrderOfActivitiesIsIrrelevant ==
    IsPB => \A p \in Reorderings(last.activities) : PBTable(p) = last.ret

\* two activities reach the same distance, the first-listed one slower, so
\* the entry comes from the one listed last
C22_Witness ==
    /\ IsPB
    /\ Len(last.activities) = 2
    /\ \E Wa \in {WindowsOf(Samples(last.activities[1]))} :
       \E Wb \in {WindowsOf(Samples(last.activities[2]))} :
         \E k \in 1..Len(last.ret) :
            /\ TimesFor(Wa, last.ret[k].distance_mi) # {}
            /\ TimesFor(Wb, last.ret[k].distance_mi) # {}
            /\ Min(TimesFor(Wa, last.ret[k].distance_mi))
                 > Min(TimesFor(Wb, last.ret[k].distance_mi))

IsPass == last.op = "refresh_pass"

\* C21: after a "Pull New Activities" pass (clear_failed, then a forced
\* refresh of every listed activity) has completed, the failed set is exactly
\* the set of ids whose fetch failed during the pass, every id whose fetch
\* succeeded is in the streams cache with the stream fetched, and both refresh
\* flags are False.
C21_PullNewPassResetsFailedSet ==
    [][(/\ last'.op = "refresh_pass"
        /\ session_state.refresh_all
        /\ ~last'.raised)
          => /\ Range(last'.fetched) = Range(last'.activities)
             /\ failed_activities'
                   = {id \in Range(last'.fetched) : Failing(last'.answers[id])}
             /\ \A id \in Range(last'.fetched) :
                   ~Failing(last'.answers[id]) =>
                       /\ id \in DOMAIN streams_cache'
                       /\ streams_cache'[id] = last'.answers[id]
             /\ ~session_state'.refresh_all
             /\ ~session_state'.refresh_existing
      ]_vars

\* a completed Pull New pass over two activities, one fetched and one failed,
\* run with both flags set
C21_Witness ==
    /\ IsPass
    /\ ~last.raised
    /\ last.ret.refresh_all
    /\ last.ret.refresh_existing
    /\ Len(last.activities) = 2
    /\ Cardinality(failed_activities) = 1
    /\ \E id \in Range(last.activities) :
          id \notin failed_activities /\ id \in DOMAIN streams_cache
    /\ session_state = NoFlags

\* the page the API serves for the k-th request of the running call
PageOf(p, k) == get_athlete_activities(p.upstream, p.per_page, k).data

\* the pages 1..k one after the other
RECURSIVE PagesUpTo(_, _)
PagesUpTo(p, k) == IF k = 0 THEN <<>> ELSE PagesUpTo(p, k - 1) \o PageOf(p, k)

\* C23: get_activities terminates (it returns, or the request that fails
\* raises); it requests the pages 1, 2, ... in order, none twice and none
\* skipped, and when it returns it has stopped at the first page that is
\* empty or shorter than per_page and returns the pages received, in page
\* order.
C23_PagingTerminatesInOrder ==
    /\ (paging.pc = "request") ~> (paging.pc \in {"done", "raised"})
    /\ [](/\ \A k \in 1..Len(paging.requested) : paging.requested[k] = k
          /\ paging.pc = "done" =>
                \E n \in {Len(paging.requested)} :
                    /\ n >= 1
                    /\ \A k \in 1..(n - 1) :
                          Len(PageOf(paging, k)) >= paging.per_page
                    /\ \/ PageOf(paging, n) = <<>>
                       \/ Len(PageOf(paging, n)) < paging.per_page
                    /\ paging.activities = PagesUpTo(paging, n))

\* a call that returned after two full pages and a short third one
C23_Witness ==
    /\ paging.pc = "done"
    /\ paging.requested = <<1, 2, 3>>
    /\ paging.per_page = 2
    /\ paging.activities = <<1, 2, 3, 4, 5>>

====
